---- MODULE Spec2Model ----
(***************************************************************************)
(* The per-key serialization queue of the template server, in its three    *)
(* variants:                                                               *)
(*   src/api/server.ts     queue() whose .catch handler re-throws           *)
(*   src/unnamed/part_001  queue() whose .catch handler returns a Response  *)
(*   src/unnamed/part_000  no queue: the handlers run the pipeline directly *)
(*                                                                         *)
(* A "link" is one call of queue(name, task) (or, in part_000, one request  *)
(* past validation).  Every step below is one synchronous block of the      *)
(* code: the body of queue(), or one promise reaction job.                  *)
(***************************************************************************)
EXTENDS Naturals, Sequences, FiniteSets

\* Bound on the number of requests / queue() calls of one run.
MaxLinks == 3

\* Project names (already validated: non-empty, no separator).
Keys == {"a", "b"}

Variants == {"server.ts", "part_000", "part_001"}
QueueVariants == {"server.ts", "part_001"}

VARIABLES
    variant,   \* which source file is running
    links,     \* sequence of link records, in the order of the queue() calls
    locks,     \* TEMPLATE_LOCKS: key -> id of the stored link, 0 = no entry
    started,   \* per key, the ids of the links whose task was invoked, in order
    req,       \* the request the handler is serving (its JSON payload and route)
    pc,        \* where the handler / the task of that request stands
    files,     \* the files that exist, as normalized absolute paths
    trace,     \* the filesystem operations and spawns done so far, in order
    cmds,      \* the children run_command has spawned, with their promises
    resp       \* what fetch() gave back for the request

\* The state of one request being served (used by ReqSpec only).
rvars == <<req, pc, files, trace, cmds, resp>>

vars == <<variant, links, locks, started, req, pc, files, trace, cmds, resp>>

----------------------------------------------------------------------------
\* Values a promise can hold.
Pending == [s |-> "pending", t |-> "none", by |-> 0, code |-> 0]
Fulfilled(v) == [s |-> "fulfilled", t |-> v.t, by |-> v.by, code |-> v.code]
Rejected(e) == [s |-> "rejected", t |-> e.t, by |-> e.by, code |-> e.code]

\* new Response(body, { status: 200 }) built by the task of link l
Response200(l) == [t |-> "resp", by |-> l, code |-> 200]
\* new Response(JSON.stringify({ error }), { status: 500 }) built by the
\* task's own catch block
Response500(l) == [t |-> "resp", by |-> l, code |-> 500]
\* an error thrown out of the task of link l
TaskError(l) == [t |-> "err", by |-> l, code |-> 0]
\* new Response("Previous task failed", { status: 500 }) of part_001's queue
PreviousTaskFailed == [t |-> "resp", by |-> 0, code |-> 500]

Ids == 1..Len(links)
KeyOf(l) == links[l].key

LinkStates == {"waiting", "running", "hung", "p1done", "settled", "caught", "cleaned", "done"}

TypeOK ==
    /\ variant \in Variants
    /\ Len(links) <= MaxLinks
    /\ \A l \in Ids :
        /\ links[l].key \in Keys
        /\ links[l].pred \in 0..(l - 1)
        /\ links[l].st \in LinkStates
        /\ links[l].invoked \in BOOLEAN
    /\ \A k \in Keys : locks[k] \in 0..Len(links)

\* No request is being followed step by step.
NoRequest == [route |-> "none", has_name |-> FALSE, name |-> <<>>,
              view |-> FALSE, server |-> FALSE]
NoResponse == [status |-> 0, rejected |-> FALSE]

Init ==
    /\ variant \in Variants
    /\ links = <<>>
    /\ locks = [k \in Keys |-> 0]
    /\ started = [k \in Keys |-> <<>>]
    /\ req = NoRequest
    /\ pc = "idle"
    /\ files = {}
    /\ trace = <<>>
    /\ cmds = <<>>
    /\ resp = NoResponse

----------------------------------------------------------------------------
\* Mutant of Last: the stored link is never read, every chain starts from
\* Promise.resolve(null).
LastIgnoresMap(name) == 0

\* Mutant of Last: one chain for all names (the newest stored link of any key).
LastOfAnyKey(name) ==
    IF \E k \in Keys : locks[k] # 0
    THEN locks[CHOOSE k \in Keys : \A j \in Keys : locks[j] <= locks[k]]
    ELSE 0

\* const last = TEMPLATE_LOCKS.get(name) || Promise.resolve(null);
\* 0 stands for the already resolved promise.
Last(name) == locks[name]

\* Mutant of Cleanup: the entry is deleted without comparing it with `next`.
CleanupNoCheck(l, lk) == [lk EXCEPT ![KeyOf(l)] = 0]

\* Mutant of Cleanup: the entry is never deleted.
CleanupNever(l, lk) == lk

\* if (TEMPLATE_LOCKS.get(name) === next) TEMPLATE_LOCKS.delete(name);
Cleanup(l, lk) == IF lk[KeyOf(l)] = l THEN [lk EXCEPT ![KeyOf(l)] = 0] ELSE lk

\* The reaction that last.then(...) registers runs once `last` has settled and
\* the reactions registered on it before have run.  In both variants the cleanup
\* of `last` is registered on it (server.ts) or ahead of it (part_001) when
\* `last` is created, so it has run by then.
PredDone(l) == IF links[l].pred = 0 THEN TRUE ELSE links[links[l].pred].st = "done"

\* The promise the caller of queue() (or of fetch, in part_000) awaits has settled.
Settled(l) ==
    IF variant = "server.ts" THEN links[l].st \in {"settled", "done"}
    ELSE links[l].st = "done"

NewLink(name, pred, st) ==
    [key |-> name, pred |-> pred, st |-> st,
     invoked |-> (st = "running"), out |-> Pending, res |-> Pending]

\* Mutant of Queue: the new link is not stored (TEMPLATE_LOCKS.set is missing).
QueueNoSet(name) ==
    /\ variant \in QueueVariants
    /\ Len(links) < MaxLinks
    /\ links' = Append(links, NewLink(name, Last(name), "waiting"))
    /\ UNCHANGED <<variant, locks, started>>

\* Mutant of Queue: the entry is set back to `last` instead of `next`.
QueueSetsLast(name) ==
    /\ variant \in QueueVariants
    /\ Len(links) < MaxLinks
    /\ links' = Append(links, NewLink(name, Last(name), "waiting"))
    /\ locks' = [locks EXCEPT ![name] = Last(name)]
    /\ UNCHANGED <<variant, started>>

\* The body of queue(name, task): read the entry, build the chain, store it.
\* It runs without suspension, so it is one step.
\* Both handlers reach it with a valid name (return await queue(name, ...)).
Queue(name) ==
    /\ variant \in QueueVariants
    /\ Len(links) < MaxLinks
    /\ links' = Append(links, NewLink(name, Last(name), "waiting"))
    /\ locks' = [locks EXCEPT ![name] = Len(links) + 1]
    /\ UNCHANGED <<variant, started>>

\* part_000: the handler awaits create_template / update_* itself, so the
\* pipeline starts in the step that passes validation.
FetchDirect(name) ==
    /\ variant = "part_000"
    /\ Len(links) < MaxLinks
    /\ links' = Append(links, NewLink(name, 0, "running"))
    /\ started' = [started EXCEPT ![name] = Append(@, Len(links) + 1)]
    /\ UNCHANGED <<variant, locks>>

\* The reaction of last.then(() => task()) / last.then(task).  On a fulfilled
\* `last` it calls the task; on a rejected `last` there is no onRejected, so the
\* rejection passes to the derived promise and the task is not called.
Start(l) ==
    /\ variant \in QueueVariants
    /\ links[l].st = "waiting"
    /\ PredDone(l)
    /\ IF links[l].pred = 0 \/ links[links[l].pred].res.s = "fulfilled"
       THEN /\ links' = [links EXCEPT ![l].st = "running", ![l].invoked = TRUE]
            /\ started' = [started EXCEPT ![KeyOf(l)] = Append(@, l)]
       ELSE /\ links' = [links EXCEPT ![l].st = "p1done",
                                      ![l].res = links[links[l].pred].res]
            /\ UNCHANGED started
    /\ UNCHANGED <<variant, locks>>

\* What a task () => Promise<Response> can end with: a 200 Response, a 500
\* Response (the handlers' tasks catch every failure of their body and return
\* one), or a rejection (a task that lets an error out).
Outcomes == {"ok", "fail", "throw"}

TaskValue(l, o) ==
    CASE o = "ok" -> Fulfilled(Response200(l))
      [] o = "fail" -> Fulfilled(Response500(l))
      [] o = "throw" -> Rejected(TaskError(l))

\* The task's promise settles, and with it the promise of last.then(...).
TaskFinish(l, o) ==
    /\ variant \in QueueVariants
    /\ links[l].st = "running"
    /\ o \in Outcomes
    /\ links' = [links EXCEPT ![l].st = "p1done",
                              ![l].out = TaskValue(l, o),
                              ![l].res = TaskValue(l, o)]
    /\ UNCHANGED <<variant, locks, started>>

\* part_000: the handler has no try/catch, a failing step rejects fetch().
DirectFinish(l, o) ==
    /\ variant = "part_000"
    /\ links[l].st = "running"
    /\ o \in {"ok", "throw"}
    /\ links' = [links EXCEPT ![l].st = "done",
                              ![l].out = TaskValue(l, o),
                              ![l].res = TaskValue(l, o)]
    /\ UNCHANGED <<variant, locks, started>>

\* run_command sets no timer: a subprocess that never exits leaves the task's
\* promise pending for good.
Hang(l) ==
    /\ links[l].st = "running"
    /\ links' = [links EXCEPT ![l].st = "hung"]
    /\ UNCHANGED <<variant, locks, started>>

\* Mutant of CatchStep: a rejected task is put back in line and called again.
CatchStepRetry(l) ==
    /\ variant \in QueueVariants
    /\ links[l].st = "p1done"
    /\ IF links[l].res.s = "rejected" /\ links[l].invoked
       THEN links' = [links EXCEPT ![l].st = "waiting", ![l].res = Pending]
       ELSE links' = [links EXCEPT ![l].st = IF variant = "server.ts"
                                            THEN "settled" ELSE "caught"]
    /\ UNCHANGED <<variant, locks, started>>

\* The .catch reaction.  server.ts: on a rejection, clean up and re-throw, so
\* `next` rejects with the same error.  part_001: on a rejection, log and
\* return the "Previous task failed" Response.  A fulfilment passes through.
CatchStep(l) ==
    /\ variant \in QueueVariants
    /\ links[l].st = "p1done"
    /\ IF variant = "server.ts"
       THEN /\ links' = [links EXCEPT ![l].st = "settled"]
            /\ locks' = IF links[l].res.s = "rejected" THEN Cleanup(l, locks) ELSE locks
       ELSE /\ links' = [links EXCEPT ![l].st = "caught",
                             ![l].res = IF @.s = "rejected"
                                        THEN Fulfilled(PreviousTaskFailed) ELSE @]
            /\ UNCHANGED locks
    /\ UNCHANGED <<variant, started>>

\* The .finally reaction: the cleanup.  In server.ts it hangs off `next`; in
\* part_001 `next` is the promise .finally returns, which settles after it.
FinallyStep(l) ==
    /\ \/ variant = "server.ts" /\ links[l].st = "settled"
          /\ links' = [links EXCEPT ![l].st = "done"]
       \/ variant = "part_001" /\ links[l].st = "caught"
          /\ links' = [links EXCEPT ![l].st = "cleaned"]
    /\ locks' = Cleanup(l, locks)
    /\ UNCHANGED <<variant, started>>

\* part_001: the promise returned by .finally settles with the value it was
\* handed.
SettleStep(l) ==
    /\ variant = "part_001"
    /\ links[l].st = "cleaned"
    /\ links' = [links EXCEPT ![l].st = "done"]
    /\ UNCHANGED <<variant, locks, started>>

Next ==
    \/ \E name \in Keys : Queue(name) /\ UNCHANGED rvars
    \/ \E name \in Keys : FetchDirect(name) /\ UNCHANGED rvars
    \/ \E l \in Ids : Start(l) /\ UNCHANGED rvars
    \/ \E l \in Ids, o \in Outcomes : TaskFinish(l, o) /\ UNCHANGED rvars
    \/ \E l \in Ids, o \in {"ok", "throw"} : DirectFinish(l, o) /\ UNCHANGED rvars
    \/ \E l \in Ids : Hang(l) /\ UNCHANGED rvars
    \/ \E l \in Ids : CatchStep(l) /\ UNCHANGED rvars
    \/ \E l \in Ids : FinallyStep(l) /\ UNCHANGED rvars
    \/ \E l \in Ids : SettleStep(l) /\ UNCHANGED rvars

Spec == Init /\ [][Next]_vars

\* A promise reaction job: one of the steps the event loop runs by itself.
Reactions ==
    /\ \E l \in Ids : Start(l) \/ CatchStep(l) \/ FinallyStep(l) \/ SettleStep(l)
    /\ UNCHANGED rvars

\* The event loop runs the queued reaction jobs: it does not stop while one is
\* queued.  Nothing obliges a client to send a request or a task to end.
Fairness == WF_vars(Reactions)

FairSpec == Init /\ [][Next]_vars /\ Fairness

----------------------------------------------------------------------------
\* The task of link l is executing (it was called and its promise is pending).
Executing(l) == links[l].st \in {"running", "hung"}

\* The task of link l is neither queued nor executing any more.
TaskOver(l) == links[l].st \notin {"waiting", "running", "hung"}

SameKey(l1, l2) == KeyOf(l1) = KeyOf(l2)

\* C1: in server.ts and part_001, two tasks enqueued under the same key are
\* never executing at the same time.
C1_NoOverlap ==
    variant \in QueueVariants =>
        \A l1, l2 \in Ids :
            (l1 # l2 /\ SameKey(l1, l2)) => ~(Executing(l1) /\ Executing(l2))

\* A task enqueued while its predecessor was outstanding is executing, the
\* predecessor having run and ended.
C1_Witness ==
    /\ variant \in QueueVariants
    /\ \E l \in Ids :
        /\ links[l].pred # 0
        /\ links[l].st = "running"
        /\ links[links[l].pred].invoked

IsIncreasing(seq) == \A i, j \in 1..Len(seq) : i < j => seq[i] < seq[j]

\* C2: per key, tasks are invoked in the order of their queue() calls, and a
\* task is invoked only once the task of every earlier link of the key is over
\* (so whatever the earlier task did is complete by then).
C2_Fifo ==
    variant \in QueueVariants =>
        /\ \A k \in Keys : IsIncreasing(started[k])
        /\ \A l \in Ids : links[l].invoked =>
              \A e \in 1..(l - 1) : SameKey(e, l) => TaskOver(e)

\* Three tasks of one key have been invoked, the later two enqueued behind an
\* outstanding predecessor.
C2_Witness ==
    /\ variant \in QueueVariants
    /\ \E k \in Keys :
        /\ Len(started[k]) >= 3
        /\ links[started[k][2]].pred # 0
        /\ links[started[k][3]].pred # 0

\* C3: in every variant, at most one pipeline per project name is in progress.
C3_OnePipelinePerName ==
    \A l1, l2 \in Ids :
        (l1 # l2 /\ SameKey(l1, l2)) => ~(Executing(l1) /\ Executing(l2))

\* C4: whatever the predecessor ended with, once the then-reaction of a link
\* has run, the link's task has been called (it is never skipped).
C4_SuccessorRuns ==
    variant \in QueueVariants =>
        \A l \in Ids : links[l].st # "waiting" => links[l].invoked

\* C5: the promise queue() returned settles with what the call's own task
\* ended with: same Response, or the task's own error.
C5_OwnOutcome ==
    variant \in QueueVariants =>
        \A l \in Ids : Settled(l) =>
            /\ links[l].out.s # "pending"
            /\ links[l].res = links[l].out

\* C6: a link waits on links of its own key only: its predecessor has its key,
\* and once the earlier links of its key are done its task can be called,
\* whatever the links of other keys are doing.
C6_CrossKeyIndependence ==
    variant \in QueueVariants =>
        \A l \in Ids :
            /\ links[l].pred # 0 => SameKey(links[l].pred, l)
            /\ (/\ links[l].st = "waiting"
                /\ \A e \in 1..(l - 1) : SameKey(e, l) => links[e].st = "done")
               => ENABLED Start(l)

\* Tasks of two keys are executing at the same time, the later one enqueued
\* on an empty chain while the other key's task was outstanding.
C6_Witness ==
    /\ variant \in QueueVariants
    /\ \E l1, l2 \in Ids :
        /\ l1 < l2
        /\ ~SameKey(l1, l2)
        /\ links[l2].pred = 0
        /\ links[l1].st \in {"running", "hung"}
        /\ links[l2].st = "running"

LinksOf(k) == {l \in Ids : KeyOf(l) = k}

\* Every task enqueued under k so far is over (it ended, or it was skipped).
AllTasksOver(k) == LinksOf(k) # {} /\ \A l \in LinksOf(k) : TaskOver(l)

\* The entry of k, if any, is a link of k whose completion handlers have not
\* all run yet.
EntryIsOutstanding(k) ==
    locks[k] # 0 =>
        /\ locks[k] \in LinksOf(k)
        /\ links[locks[k]].st \notin {"cleaned", "done"}

\* A queue() call made when every earlier link of its key is done starts from
\* Promise.resolve(null).
FreshChainAfterDrain ==
    (/\ Len(links') = Len(links) + 1
     /\ \A e \in Ids : links[e].key = links'[Len(links')].key => links[e].st = "done")
    => links'[Len(links')].pred = 0

\* C7: once every task of a key is over and nothing new is enqueued, the entry
\* of the key goes away; an entry is there only while its link is outstanding
\* (task queued or running, or completion handlers still to run); and a call
\* made after the drain starts a fresh chain.
C7_QueueDrains ==
    /\ \A k \in Keys : AllTasksOver(k) ~> (locks[k] = 0 \/ ~AllTasksOver(k))
    /\ [](\A k \in Keys : EntryIsOutstanding(k))
    /\ [][FreshChainAfterDrain]_vars

\* A key has drained (entry gone, links done) and a later call started from
\* the resolved promise and had its task called.
C7_Witness ==
    /\ variant \in QueueVariants
    /\ \E e, l \in Ids :
        /\ e < l
        /\ SameKey(e, l)
        /\ links[e].st = "done"
        /\ links[l].pred = 0
        /\ links[l].invoked
        /\ links[l].st = "done"
        /\ locks[KeyOf(l)] = 0

\* A step that changes the entry of k: either a newer link is stored, or the
\* stored link removes itself in one of its own completion handlers.
EntryChangeIsLegal(k) ==
    (locks[k] # 0 /\ locks'[k] # locks[k]) =>
        \/ locks'[k] > locks[k]
        \/ /\ locks'[k] = 0
           /\ links[locks[k]].st \in {"p1done", "settled", "caught"}
           /\ links'[locks[k]].st # links[locks[k]].st

\* C8: the cleanup of a link removes the entry only if the entry is that link;
\* a newer link stays stored until its own completion handlers run.
C8_CleanupKeepsNewer == [][\A k \in Keys : EntryChangeIsLegal(k)]_vars

\* The cleanup of an older link has run while a newer link, enqueued behind
\* it, is stored and still queued or running.
C8_Witness ==
    /\ variant \in QueueVariants
    /\ \E e, l \in Ids :
        /\ links[l].pred = e
        /\ links[e].st = "done"
        /\ locks[KeyOf(l)] = l
        /\ links[l].st \in {"waiting", "running"}

NoneHung == \A l \in Ids : links[l].st # "hung"

\* C9: when no task hangs, a link whose promise has settled had its task
\* executed (every enqueued task is executed before its promise settles).
C9_SettledImpliesExecuted ==
    (variant \in QueueVariants /\ NoneHung) =>
        \A l \in Ids : Settled(l) => links[l].invoked

\* While the task of h hangs, the entry of its key stays and no later task of
\* the key is called.
SlotOccupied(h) ==
    /\ locks[KeyOf(h)] # 0
    /\ \A l \in Ids : (l > h /\ SameKey(l, h)) => ~links[l].invoked

\* While the task of h hangs, the tasks of the other keys still start and
\* complete: none of them has settled without having been called.
OtherKeysRun(h) ==
    \A l \in Ids : (~SameKey(l, h) /\ Settled(l)) => links[l].invoked

\* The part of C10 about the hung key alone: it holds in both queue variants.
C10_SlotOccupied ==
    variant \in QueueVariants =>
        \A h \in Ids : links[h].st = "hung" => SlotOccupied(h)

\* C10: a task that never completes keeps its key's entry and blocks the later
\* tasks of its key, while the tasks of the other keys start and complete.
C10_NoTimeout ==
    variant \in QueueVariants =>
        \A h \in Ids : links[h].st = "hung" => (SlotOccupied(h) /\ OtherKeysRun(h))

----------------------------------------------------------------------------
\* Some task of key k is queued or running.
Outstanding(k) == \E l \in LinksOf(k) : ~TaskOver(l)

\* The link of the most recent queue() call on key k (0 when there is none).
Newest(k) ==
    IF LinksOf(k) = {} THEN 0
    ELSE CHOOSE l \in LinksOf(k) : \A m \in LinksOf(k) : m <= l

\* The link of the queue() call on l's key that came just before l's (0 when
\* l's call was the first on its key).
PrevEnqueue(l) ==
    IF \E e \in Ids : e < l /\ SameKey(e, l)
    THEN CHOOSE e \in Ids :
            /\ e < l /\ SameKey(e, l)
            /\ \A m \in Ids : (m < l /\ SameKey(m, l)) => m <= e
    ELSE 0

\* C17: while some task of a key is queued or running, the key's entry is the
\* link of the most recent queue() call on it; a link chained on a predecessor
\* is chained on the link of the queue() call just before its own, and is
\* chained on it whenever that link's task was still queued or running; no two
\* links have the same predecessor.
C17_EntryIsNewestLink ==
    variant \in QueueVariants =>
        /\ \A k \in Keys : Outstanding(k) => locks[k] = Newest(k)
        /\ \A l \in Ids :
            /\ links[l].pred # 0 => links[l].pred = PrevEnqueue(l)
            /\ (PrevEnqueue(l) # 0 /\ ~TaskOver(PrevEnqueue(l)))
                    => links[l].pred = PrevEnqueue(l)
        /\ \A l1, l2 \in Ids :
            (l1 # l2 /\ links[l1].pred # 0) => links[l1].pred # links[l2].pred

\* Three queue() calls on one key: the first task runs, the two others wait in
\* a chain, the entry is the third link.
C17_Witness ==
    /\ variant \in QueueVariants
    /\ \E l1, l2, l3 \in Ids :
        /\ l1 < l2 /\ l2 < l3 /\ SameKey(l1, l2) /\ SameKey(l2, l3)
        /\ links[l1].st = "running"
        /\ links[l2].st = "waiting" /\ links[l2].pred = l1
        /\ links[l3].st = "waiting" /\ links[l3].pred = l2
        /\ locks[KeyOf(l3)] = l3

NoDuplicates(seq) ==
    \A i, j \in 1..Len(seq) : i # j => seq[i] # seq[j]

\* C18: the task of a link is called at most once: no link occurs twice among
\* the calls of its key, and a link marked invoked occurs there exactly once.
C18_InvokedAtMostOnce ==
    /\ \A k \in Keys : NoDuplicates(started[k])
    /\ \A l \in Ids :
        links[l].invoked <=> (\E i \in 1..Len(started[KeyOf(l)]) : started[KeyOf(l)][i] = l)

\* A task was called, rejected, and its completion handlers (cleanup included)
\* have all run; a later task of the same key was called as well.
C18_Witness ==
    \E l1, l2 \in Ids :
        /\ l1 < l2 /\ SameKey(l1, l2)
        /\ links[l1].invoked /\ links[l1].out.s = "rejected" /\ links[l1].st = "done"
        /\ links[l2].invoked /\ links[l2].st = "done"

----------------------------------------------------------------------------
(***************************************************************************)
(* One request followed step by step through fetch(): validation, queue(), *)
(* the task's filesystem operations, the children of run_command and the   *)
(* response.  Strings are sequences of characters.                          *)
(***************************************************************************)

\* Longest payload.name of a request.
MaxNameLen == 2

\* Characters of payload.name: an ordinary one, the dot, both separators and
\* a white space.
Chars == {"a", ".", "/", "\\", " "}

RawNames == UNION {[1..n -> Chars] : n \in 0..MaxNameLen}

RECURSIVE TrimStart(_)
TrimStart(s) ==
    IF s # <<>> /\ Head(s) = " " THEN TrimStart(Tail(s)) ELSE s

RECURSIVE TrimEnd(_)
TrimEnd(s) ==
    IF s # <<>> /\ s[Len(s)] = " " THEN TrimEnd(SubSeq(s, 1, Len(s) - 1)) ELSE s

\* String.prototype.trim
Trim(s) == TrimEnd(TrimStart(s))

\* const name = payload.name?.trim();  (undefined when payload.name is absent)
NameOf(r) == [defined |-> r.has_name, s |-> IF r.has_name THEN Trim(r.name) ELSE <<>>]

\* /[\/\\]/.test(name)
HasSeparator(s) == \E i \in 1..Len(s) : s[i] \in {"/", "\\"}

\* Mutant of Invalid: the separator test is missing.
InvalidEmptyOnly(n) == ~n.defined \/ n.s = <<>>

\* if (!name || /[\/\\]/.test(name)) return new Response(..., { status: 400 })
Invalid(n) == ~n.defined \/ n.s = <<>> \/ HasSeparator(n.s)

\* Path segments.
DOT == <<".">>
DOTDOT == <<".", ".">>
SRC == <<"s", "r", "c">>
APP_VUE == <<"A", "p", "p", ".", "v", "u", "e">>
SERVER_TS == <<"s", "e", "r", "v", "e", "r", ".", "t", "s">>
PACKAGE_JSON == <<"p", "a", "c", "k", "a", "g", "e", ".", "j", "s", "o", "n">>
UNDERSCORE_PACKAGE == <<"_", "p", "a", "c", "k", "a", "g", "e">>

\* const OUTPUT_DIR = path.resolve("../components"): an absolute path, written
\* as the sequence of its segments below the filesystem root.
OUTPUT_DIR == << <<"w">>, <<"c", "o", "m", "p", "o", "n", "e", "n", "t", "s">> >>

\* The segments of a string, cut at each "/" (posix path).
RECURSIVE SplitSlash(_, _)
SplitSlash(s, cur) ==
    IF s = <<>> THEN <<cur>>
    ELSE IF Head(s) = "/" THEN <<cur>> \o SplitSlash(Tail(s), <<>>)
    ELSE SplitSlash(Tail(s), Append(cur, Head(s)))

\* path.normalize on an absolute path: "" and "." segments go, ".." removes
\* the segment before it (and stays at the filesystem root).
RECURSIVE Normalize(_, _)
Normalize(segs, acc) ==
    IF segs = <<>> THEN acc
    ELSE IF Head(segs) = <<>> \/ Head(segs) = DOT THEN Normalize(Tail(segs), acc)
    ELSE IF Head(segs) = DOTDOT
         THEN Normalize(Tail(segs),
                        IF acc = <<>> THEN acc ELSE SubSeq(acc, 1, Len(acc) - 1))
    ELSE Normalize(Tail(segs), Append(acc, Head(segs)))

RECURSIVE SplitAll(_)
SplitAll(parts) ==
    IF parts = <<>> THEN <<>>
    ELSE SplitSlash(Head(parts), <<>>) \o SplitAll(Tail(parts))

\* Mutant of path_join: ".." is kept as a directory name of its own.
path_join_literal(base, parts) == base \o SplitAll(parts)

\* path.join(base, ...parts), base being an absolute normalized path
path_join(base, parts) == Normalize(base \o SplitAll(parts), <<>>)

\* const target_dir = path.join(OUTPUT_DIR, name);
target_dir(name) == path_join(OUTPUT_DIR, <<name>>)
\* const view_path = path.join(OUTPUT_DIR, name + '/src', "App.vue");
view_path(name) == path_join(OUTPUT_DIR, <<name \o <<"/">> \o SRC, APP_VUE>>)
\* server.ts, part_001: path.join(OUTPUT_DIR, name + '/src', "server.ts")
\* part_000:            path.join(OUTPUT_DIR, name, "server.ts")
server_path(name) ==
    IF variant = "part_000" THEN path_join(OUTPUT_DIR, <<name, SERVER_TS>>)
    ELSE path_join(OUTPUT_DIR, <<name \o <<"/">> \o SRC, SERVER_TS>>)
\* part_001: path.join(OUTPUT_DIR, name + '/_package')
package_dir(name) == path_join(OUTPUT_DIR, <<name \o <<"/">> \o UNDERSCORE_PACKAGE>>)

\* p lies strictly inside the directory dir.
StrictlyInside(p, dir) ==
    Len(p) > Len(dir) /\ SubSeq(p, 1, Len(dir)) = dir

----------------------------------------------------------------------------
\* The POST requests on /create/template and /update/template.  view and
\* server tell whether the payload carries a (truthy) view / server content.
Requests ==
    {r \in [route : {"create", "update"}, has_name : BOOLEAN, name : RawNames,
            view : BOOLEAN, server : BOOLEAN] :
        /\ (~r.has_name => r.name = <<>>)
        /\ (r.route = "create" => (~r.view /\ ~r.server))}

\* The names that pass validation.
AcceptedNames == {Trim(s) : s \in RawNames} \ {n \in RawNames : Invalid([defined |-> TRUE, s |-> n])}

\* The source files of a project, as the claims and update_view name them.
project_view(name) == path_join(OUTPUT_DIR, <<name, SRC, APP_VUE>>)
project_server(name) == path_join(OUTPUT_DIR, <<name, SRC, SERVER_TS>>)
\* The file part_000's update_server looks at.
root_server(name) == path_join(OUTPUT_DIR, <<name, SERVER_TS>>)
pkg_path(name) == path_join(target_dir(name), <<PACKAGE_JSON>>)

ProjectFiles(name) == {project_view(name), project_server(name), root_server(name)}

\* The name of the request being served, once validated.
name == NameOf(req).s

\* The server is up, nothing is queued, a request has arrived; the project it
\* names may have been scaffolded before, wholly or in part.
ReqInit ==
    /\ variant \in Variants
    /\ links = <<>>
    /\ locks = [k \in AcceptedNames |-> 0]
    /\ started = [k \in AcceptedNames |-> <<>>]
    /\ req \in Requests
    /\ pc = "recv"
    /\ files \in (IF Invalid(NameOf(req)) THEN {{}} ELSE SUBSET ProjectFiles(NameOf(req).s))
    /\ trace = <<>>
    /\ cmds = <<>>
    /\ resp = NoResponse

Did(op, path) == Append(trace, [op |-> op, path |-> path])

\* Where the task starts.
FirstStep ==
    IF req.route = "create" THEN "mkdir"
    ELSE IF variant = "part_001" THEN "rm" ELSE "view"

\* Where control goes when a step of the task throws: to the task's catch
\* block (server.ts, part_001) or out of fetch() (part_000, no try/catch).
ThrowPc == IF variant = "part_000" THEN "threw" ELSE "catch"

\* return new Response("Invalid template name", { status: 400 });
Reject400 ==
    /\ pc = "recv"
    /\ Invalid(NameOf(req))
    /\ resp' = [status |-> 400, rejected |-> FALSE]
    /\ pc' = "responded"
    /\ UNCHANGED <<variant, links, locks, started, req, files, trace, cmds>>

\* return await queue(name, async () => {...})
Enqueue ==
    /\ pc = "recv"
    /\ ~Invalid(NameOf(req))
    /\ Queue(name)
    /\ pc' = "queued"
    /\ UNCHANGED <<req, files, trace, cmds, resp>>

\* part_000: the handler goes on into the pipeline itself.
RunDirect ==
    /\ pc = "recv"
    /\ ~Invalid(NameOf(req))
    /\ FetchDirect(name)
    /\ pc' = FirstStep
    /\ UNCHANGED <<req, files, trace, cmds, resp>>

\* last.then(() => task()): the task is called.
TaskStart ==
    /\ pc = "queued"
    /\ \E l \in Ids : Start(l)
    /\ pc' = FirstStep
    /\ UNCHANGED <<req, files, trace, cmds, resp>>

----------------------------------------------------------------------------
\* create_template, one awaited call per step.

\* await mkdir(target_dir, { recursive: true });
create_mkdir(ok) ==
    /\ pc = "mkdir"
    /\ trace' = Did("mkdir", target_dir(name))
    /\ pc' = IF ok THEN "cp" ELSE ThrowPc
    /\ UNCHANGED <<variant, links, locks, started, req, files, cmds, resp>>

\* await cp(TEMPLATE_DIR, target_dir, { recursive: true, force: true });
\* The template holds the two source files; with_pkg tells whether it holds a
\* package.json as well.
create_cp(ok, with_pkg) ==
    /\ pc = "cp"
    /\ trace' = Did("cp", target_dir(name))
    /\ IF ok
       THEN /\ files' = files \cup {project_view(name), project_server(name)}
                              \cup (IF with_pkg THEN {pkg_path(name)} ELSE {})
            /\ pc' = "manifest"
       ELSE /\ UNCHANGED files
            /\ pc' = ThrowPc
    /\ UNCHANGED <<variant, links, locks, started, req, cmds, resp>>

\* await update_package_json(target_dir, name): nothing when there is no
\* package.json; else read, rename, write (ok = FALSE: JSON.parse or the write
\* throws).
update_package_json(ok) ==
    /\ pc = "manifest"
    /\ IF pkg_path(name) \notin files
       THEN /\ ok
            /\ UNCHANGED trace
            /\ pc' = "install"
       ELSE /\ trace' = IF ok THEN Did("write", pkg_path(name)) ELSE trace
            /\ pc' = IF ok THEN "install" ELSE ThrowPc
    /\ UNCHANGED <<variant, links, locks, started, req, files, cmds, resp>>

----------------------------------------------------------------------------
\* run_command(command, args, cwd)

NewChild(cmd) == [cmd |-> cmd, evs |-> <<>>, p |-> "pending", settles |-> 0]

\* resolve() / reject(): a promise settles on the first call only.
Settle(c, how) ==
    IF c.p = "pending" THEN [c EXCEPT !.p = how, !.settles = @ + 1] ELSE c

\* const child = spawn(command, args, { cwd, ... }) inside new Promise(...),
\* awaited by the task.
run_command ==
    /\ pc \in {"install", "build"}
    /\ trace' = Did(pc, target_dir(name))
    /\ cmds' = Append(cmds, NewChild(pc))
    /\ pc' = IF pc = "install" THEN "await_install" ELSE "await_build"
    /\ UNCHANGED <<variant, links, locks, started, req, files, resp>>

ExitCodes == {0, 1}

\* child.on("close", (code) => { if (code === 0) resolve(); else reject(...) })
\* The child closes, having started or after an 'error'.
on_close(i, code) ==
    /\ pc # "crashed"
    /\ cmds[i].evs \in {<<>>, <<"error">>}
    /\ cmds' = [cmds EXCEPT ![i] =
                  Settle([@ EXCEPT !.evs = Append(@, IF code = 0 THEN "close0" ELSE "close1")],
                         IF code = 0 THEN "resolved" ELSE "rejected")]
    /\ UNCHANGED <<variant, links, locks, started, req, pc, files, trace, resp>>

\* child.on("error", (err) => reject(err)) in server.ts and part_001.
\* part_000 registers no 'error' listener: the event is thrown as an uncaught
\* exception, the promise is left pending.
on_error(i) ==
    /\ pc # "crashed"
    /\ cmds[i].evs = <<>>
    /\ IF variant = "part_000"
       THEN /\ cmds' = [cmds EXCEPT ![i].evs = Append(@, "error")]
            /\ pc' = "crashed"
       ELSE /\ cmds' = [cmds EXCEPT ![i] =
                          Settle([@ EXCEPT !.evs = Append(@, "error")], "rejected")]
            /\ UNCHANGED pc
    /\ UNCHANGED <<variant, links, locks, started, req, files, trace, resp>>

\* Mutant of await_command: the outcome of the command is not looked at.
await_command_unchecked ==
    /\ pc \in {"await_install", "await_build"}
    /\ cmds[Len(cmds)].p # "pending"
    /\ pc' = IF pc = "await_install" THEN "build" ELSE "ok"
    /\ UNCHANGED <<variant, links, locks, started, req, files, trace, cmds, resp>>

\* The task resumes after `await run_command(...)`.
await_command ==
    /\ pc \in {"await_install", "await_build"}
    /\ cmds[Len(cmds)].p # "pending"
    /\ pc' = IF cmds[Len(cmds)].p = "rejected" THEN ThrowPc
             ELSE IF pc = "await_install" THEN "build" ELSE "ok"
    /\ UNCHANGED <<variant, links, locks, started, req, files, trace, cmds, resp>>

----------------------------------------------------------------------------
\* The update task.

\* part_001: await rm(path.join(OUTPUT_DIR, name + '/_package'),
\*                    { recursive: true, force: true });
update_rm ==
    /\ pc = "rm"
    /\ trace' = Did("rm", package_dir(name))
    /\ files' = {f \in files : f # package_dir(name) /\ ~StrictlyInside(f, package_dir(name))}
    /\ pc' = "view"
    /\ UNCHANGED <<variant, links, locks, started, req, cmds, resp>>

\* Mutant of mutate: a failure is swallowed and the task goes on.
mutate_swallow(path, ok, next) ==
    /\ trace' = Did(IF path \notin files THEN "ENOENT" ELSE IF ok THEN "write" ELSE "EIO", path)
    /\ UNCHANGED files
    /\ pc' = next

\* try { await access(path); await write(path, content); } catch (error) {...}
\* A missing file makes access() fail with ENOENT (the not-found error);
\* ok = FALSE is another failure of access() or write() ("File system error").
mutate(path, ok, next) ==
    /\ IF path \notin files
       THEN /\ trace' = Did("ENOENT", path)
            /\ UNCHANGED files
            /\ pc' = ThrowPc
       ELSE IF ok
       THEN /\ trace' = Did("write", path)
            /\ files' = files \cup {path}
            /\ pc' = next
       ELSE /\ trace' = Did("EIO", path)
            /\ UNCHANGED files
            /\ pc' = ThrowPc

\* if (view) await update_view(name, view);
update_view(ok) ==
    /\ pc = "view"
    /\ IF req.view
       THEN mutate(view_path(name), ok, "server")
       ELSE /\ ok
            /\ pc' = "server"
            /\ UNCHANGED <<files, trace>>
    /\ UNCHANGED <<variant, links, locks, started, req, cmds, resp>>

\* if (server) await update_server(name, server);
update_server(ok) ==
    /\ pc = "server"
    /\ IF req.server
       THEN mutate(server_path(name), ok, "pipeline")
       ELSE /\ ok
            /\ pc' = "pipeline"
            /\ UNCHANGED <<files, trace>>
    /\ UNCHANGED <<variant, links, locks, started, req, cmds, resp>>

\* if (view || server) { install; build }   (part_000: build only)
PipelineEntry ==
    IF req.view \/ req.server
    THEN (IF variant = "part_000" THEN "build" ELSE "install")
    ELSE "ok"

update_pipeline ==
    /\ pc = "pipeline"
    /\ pc' = PipelineEntry
    /\ UNCHANGED <<variant, links, locks, started, req, files, trace, cmds, resp>>

----------------------------------------------------------------------------
\* The end of the task and the response.

\* return new Response(body, { status: 200, ... }) at the end of the try block
task_return_200 ==
    /\ pc = "ok"
    /\ \E l \in Ids : TaskFinish(l, "ok")
    /\ pc' = "awaitq"
    /\ UNCHANGED <<req, files, trace, cmds, resp>>

\* catch (err) { ...; return new Response(JSON.stringify({ error }), { status: 500 }) }
task_return_500 ==
    /\ pc = "catch"
    /\ \E l \in Ids : TaskFinish(l, "fail")
    /\ pc' = "awaitq"
    /\ UNCHANGED <<req, files, trace, cmds, resp>>

\* The .catch / .finally reactions of the link.
link_reaction ==
    /\ pc = "awaitq"
    /\ \E l \in Ids : CatchStep(l) \/ FinallyStep(l) \/ SettleStep(l)
    /\ UNCHANGED rvars

\* `return await queue(...)`: fetch() gives back what `next` settled with.
\* The continuation of the await is registered on `next` after the cleanup.
respond ==
    /\ pc = "awaitq"
    /\ \E l \in Ids :
        /\ links[l].st = "done"
        /\ resp' = [status |-> links[l].res.code, rejected |-> links[l].res.s = "rejected"]
    /\ pc' = "responded"
    /\ UNCHANGED <<variant, links, locks, started, req, files, trace, cmds>>

\* part_000: return new Response(...) (status 200 by default)
direct_return ==
    /\ pc = "ok"
    /\ \E l \in Ids : DirectFinish(l, "ok")
    /\ resp' = [status |-> 200, rejected |-> FALSE]
    /\ pc' = "responded"
    /\ UNCHANGED <<req, files, trace, cmds>>

\* part_000: the error leaves fetch(), whose promise rejects.
direct_reject ==
    /\ pc = "threw"
    /\ \E l \in Ids : DirectFinish(l, "throw")
    /\ resp' = [status |-> 0, rejected |-> TRUE]
    /\ pc' = "responded"
    /\ UNCHANGED <<req, files, trace, cmds>>

ReqNext ==
    \/ Reject400
    \/ Enqueue
    \/ RunDirect
    \/ TaskStart
    \/ \E ok \in BOOLEAN : create_mkdir(ok)
    \/ \E ok \in BOOLEAN, with_pkg \in BOOLEAN : create_cp(ok, with_pkg)
    \/ \E ok \in BOOLEAN : update_package_json(ok)
    \/ run_command
    \/ \E i \in 1..Len(cmds), code \in ExitCodes : on_close(i, code)
    \/ \E i \in 1..Len(cmds) : on_error(i)
    \/ await_command
    \/ update_rm
    \/ \E ok \in BOOLEAN : update_view(ok)
    \/ \E ok \in BOOLEAN : update_server(ok)
    \/ update_pipeline
    \/ task_return_200
    \/ task_return_500
    \/ link_reaction
    \/ respond
    \/ direct_return
    \/ direct_reject

ReqSpec == ReqInit /\ [][ReqNext]_vars

----------------------------------------------------------------------------
\* The trimmed name of request r is missing, empty or holds a separator.
BadName(r) ==
    \/ ~r.has_name
    \/ Trim(r.name) = <<>>
    \/ \E i \in 1..Len(Trim(r.name)) : Trim(r.name)[i] = "/" \/ Trim(r.name)[i] = "\\"

\* C11: a request whose trimmed name is missing, empty or holds '/' or '\' is
\* answered with 400 and nothing else: queue() is not called, TEMPLATE_LOCKS
\* stays empty, no file operation is done and no subprocess is spawned.
C11_ValidationBeforeQueue ==
    BadName(req) =>
        /\ pc \in {"recv", "responded"}
        /\ pc = "responded" => resp = [status |-> 400, rejected |-> FALSE]
        /\ links = <<>>
        /\ \A k \in DOMAIN locks : locks[k] = 0
        /\ trace = <<>> /\ cmds = <<>>

\* A name with a separator inside has been answered with 400.
C11_Witness ==
    /\ req.has_name /\ HasSeparator(Trim(req.name)) /\ Len(req.name) > 1
    /\ pc = "responded" /\ resp.status = 400

\* C12: every path the task of an accepted name works on (the target directory
\* of mkdir, cp and the spawns, the files of update_view / update_server) lies
\* strictly inside the output root.
C12_PathContainment ==
    \A i \in 1..Len(trace) : StrictlyInside(trace[i].path, OUTPUT_DIR)

IsPrefix(a, b) == Len(a) <= Len(b) /\ SubSeq(b, 1, Len(a)) = a

Ops == [i \in 1..Len(trace) |-> trace[i].op]

\* The child i closed with a non-zero code or could not be spawned.
CommandFailed(i) == cmds[i].evs # <<>> /\ cmds[i].evs[1] # "close0"

\* C13: in server.ts and part_001 a create request does mkdir, cp, the manifest
\* rewrite (when the copy has a package.json), pnpm install, pnpm build, in
\* that order and in the target directory; build is spawned only after install
\* closed with code 0; after a command that failed nothing more is done and
\* the handler answers 500.
C13_ScaffoldOrder ==
    (variant \in QueueVariants /\ req.route = "create") =>
        /\ \/ IsPrefix(Ops, <<"mkdir", "cp", "write", "install", "build">>)
           \/ IsPrefix(Ops, <<"mkdir", "cp", "install", "build">>)
        /\ \A i \in 1..Len(trace) :
            trace[i].path = IF trace[i].op = "write" THEN pkg_path(name) ELSE target_dir(name)
        /\ Len(cmds) = 2 => cmds[1].evs = <<"close0">>
        /\ \A i \in 1..Len(cmds) :
            CommandFailed(i) =>
                /\ Len(cmds) = i
                /\ trace[Len(trace)].op = cmds[i].cmd
                /\ pc \in {"await_install", "await_build", "catch", "awaitq", "responded"}
                /\ pc = "responded" => resp = [status |-> 500, rejected |-> FALSE]
        /\ (pc = "responded" /\ resp.status = 200) =>
                (Len(cmds) = 2 /\ cmds[2].evs = <<"close0">>)

\* A scaffold whose install succeeded and whose build could not be spawned has
\* been answered.
C13_Witness ==
    /\ variant \in QueueVariants /\ req.route = "create"
    /\ Len(cmds) = 2 /\ cmds[2].cmd = "build" /\ cmds[2].evs = <<"error">>
    /\ Ops = <<"mkdir", "cp", "write", "install", "build">>
    /\ pc = "responded" /\ resp.status = 500

----------------------------------------------------------------------------
Spawned(c) == \E i \in 1..Len(trace) : trace[i].op = c

\* A mutation step (update_view or update_server) has thrown.
MutationFailed == \E i \in 1..Len(trace) : trace[i].op \in {"ENOENT", "EIO"}

\* C14: an update runs pnpm install and then pnpm build exactly when a view or
\* a server content was supplied and the mutations succeeded: build is never
\* spawned without install before it, nothing is spawned after a failed
\* mutation or when nothing was supplied, an update of something that ends
\* with 200 has run install and build; an update of nothing spawns nothing,
\* writes no file and ends with 200.
C14_UpdatePipeline ==
    req.route = "update" =>
        /\ Spawned("build") => Spawned("install")
        /\ (Spawned("install") \/ Spawned("build")) =>
                ((req.view \/ req.server) /\ ~MutationFailed)
        /\ (pc = "responded" /\ resp.status = 200 /\ (req.view \/ req.server)) =>
                (Spawned("install") /\ Spawned("build"))
        /\ (~req.view /\ ~req.server /\ ~BadName(req)) =>
                /\ cmds = <<>>
                /\ ~Spawned("write") /\ ~MutationFailed
                /\ pc = "responded" => resp.status = 200

LastOp(t) == t[Len(t)]

\* update_view or update_server is being run by this step.
MutationStep == req.route = "update" /\ pc \in {"view", "server"} /\ pc' # pc

MutationPrecondition ==
    MutationStep =>
        /\ files' = files
        /\ (pc = "view" /\ req.view /\ project_view(name) \notin files) =>
                LastOp(trace').op = "ENOENT"
        /\ (pc = "server" /\ req.server /\ project_server(name) \notin files) =>
                LastOp(trace').op = "ENOENT"
        /\ (Len(trace') > Len(trace) /\ LastOp(trace').op = "write") =>
                LastOp(trace').path \in files

\* C15: update_view / update_server on a project whose src/App.vue /
\* src/server.ts does not exist ends with the not-found error and creates no
\* file; a file is written only if it existed when the step checked it.
C15_MutationPrecondition == [][MutationPrecondition]_vars

\* C16: the promise of run_command settles exactly once for every event
\* sequence of the child: it resolves exactly when the only event is a close
\* with code 0, it rejects on a non-zero close, and it rejects (it does not
\* stay pending) when the child emits 'error'.
C16_RunCommandOutcome ==
    \A i \in 1..Len(cmds) :
        /\ cmds[i].settles <= 1
        /\ cmds[i].evs # <<>> => (cmds[i].settles = 1 /\ cmds[i].p # "pending")
        /\ cmds[i].p = "resolved" <=> cmds[i].evs = <<"close0">>
        /\ (cmds[i].evs # <<>> /\ cmds[i].evs[1] = "close1") => cmds[i].p = "rejected"
        /\ (cmds[i].evs # <<>> /\ cmds[i].evs[1] = "error") => cmds[i].p = "rejected"

\* C19: in server.ts and part_001, once a mutation step of an update has
\* thrown, nothing more is done for that update (no later mutation, no pnpm
\* install or build, no undoing of a file already written), the error does not
\* leave the task, and the answer is the 500 Response.
C19_MutationFailureStops ==
    (variant \in QueueVariants /\ req.route = "update") =>
        \A i \in 1..Len(trace) :
            trace[i].op \in {"ENOENT", "EIO"} =>
                /\ i = Len(trace)
                /\ cmds = <<>>
                /\ \A j \in 1..(i - 1) : trace[j].op = "write" => trace[j].path \in files
                /\ pc \in {"catch", "awaitq", "responded"}
                /\ \A l \in Ids : links[l].out.s # "rejected"
                /\ pc = "responded" => resp = [status |-> 500, rejected |-> FALSE]

\* The view was written, the server file was missing, the update was answered
\* with 500.
C19_Witness ==
    /\ variant \in QueueVariants /\ req.route = "update"
    /\ Len(trace) >= 2
    /\ trace[Len(trace) - 1] = [op |-> "write", path |-> view_path(name)]
    /\ trace[Len(trace)] = [op |-> "ENOENT", path |-> server_path(name)]
    /\ pc = "responded" /\ resp.status = 500
====
